---- MODULE Spec2Model ----
(***************************************************************************)
(* pgx-woodsbury-decimal128: the codecs between decimal128.Decimal and the *)
(* pgtype wire values Numeric, Float8 and Int8 (decimal.go).               *)
(*                                                                         *)
(* Unbounded integers (big.Int, the 113-bit coefficient, int64) are kept   *)
(* as sequences of decimal digits, most significant first, without leading *)
(* zeros; zero is the empty sequence.  Their sizes are those of the code.  *)
(***************************************************************************)
EXTENDS Integers, Sequences, FiniteSets, TLC

VARIABLES kind, d, nd, call, pc, rcv, held, pool, mem, val

vars == <<kind, d, nd, call, pc, rcv, held, pool, mem, val>>

\* the goroutines that call NullDecimal.NumericValue at the same time, and bufPool
poolVars == <<pc, rcv, held, pool, mem, val>>

(***************************************************************************)
(* Bounds of the model: the small values the inputs are enumerated from.   *)
(***************************************************************************)
MaxSmallCoef == 1

MaxSmallExp == 1

\* the goroutines that call NullDecimal.NumericValue at the same time
NumGoroutines == 2

(***************************************************************************)
(* Digit-sequence arithmetic.                                              *)
(***************************************************************************)
Zeros(k) == [i \in 1..k |-> 0]

Strip(s) ==
    IF \A i \in 1..Len(s) : s[i] = 0 THEN << >>
    ELSE LET k == CHOOSE i \in 1..Len(s) : s[i] # 0 /\ \A j \in 1..(i - 1) : s[j] = 0
         IN  SubSeq(s, k, Len(s))

RECURSIVE ToDigits(_)
ToDigits(n) ==
    IF n = 0 THEN << >> ELSE Append(ToDigits(n \div 10), n % 10)

RECURSIVE LexCmp(_, _)
LexCmp(a, b) ==
    IF a = << >> THEN 0
    ELSE IF Head(a) < Head(b) THEN -1
    ELSE IF Head(a) > Head(b) THEN 1
    ELSE LexCmp(Tail(a), Tail(b))

\* big.Int.CmpAbs on magnitudes: -1, 0 or 1
Cmp(a, b) ==
    IF Len(a) < Len(b) THEN -1
    ELSE IF Len(a) > Len(b) THEN 1
    ELSE LexCmp(a, b)

\* a * 10^k
ShiftLeft(a, k) == IF a = << >> THEN << >> ELSE a \o Zeros(k)

\* a \div 10^k, truncating
ShiftRight(a, k) == IF k >= Len(a) THEN << >> ELSE SubSeq(a, 1, Len(a) - k)

\* the number of trailing zero digits of a non-zero magnitude
RECURSIVE TrailingZeros(_)
TrailingZeros(a) ==
    IF a = << >> THEN 0
    ELSE IF a[Len(a)] # 0 THEN 0
    ELSE 1 + TrailingZeros(SubSeq(a, 1, Len(a) - 1))

(***************************************************************************)
(* Sizes.                                                                  *)
(***************************************************************************)
\* math.MaxInt64 and the magnitude of math.MinInt64
MaxInt64 == <<9,2,2,3,3,7,2,0,3,6,8,5,4,7,7,5,8,0,7>>

MinInt64Abs == <<9,2,2,3,3,7,2,0,3,6,8,5,4,7,7,5,8,0,8>>

\* 2^128: a big.Int has BitLen() > 128 exactly when its magnitude is >= 2^128
Pow2_128 ==
    <<3,4,0,2,8,2,3,6,6,9,2,0,9,3,8,4,6,3,4,6,3,3,7,4,6,0,7,4,3,1,7,6,8,2,1,1,4,5,6>>

\* 2^113: the coefficient of a decimal128.Decimal has 113 bits
Pow2_113 ==
    <<1,0,3,8,4,5,9,3,7,1,7,0,6,9,6,5,5,2,5,7,0,6,0,9,9,2,6,5,8,4,4,0,1,9,2>>

\* the exponent range of a decimal128.Decimal: -exponentBias .. 12287 - exponentBias
exponentBias == 6176

maxBiasedExponent == 12287

minUnbiasedExponent == 0 - exponentBias

maxUnbiasedExponent == maxBiasedExponent - exponentBias

(***************************************************************************)
(* decimal128.Decimal: form 0 is finite, 1 infinite, 2 NaN (the forms of   *)
(* Decompose and Compose).  A finite value is (-1)^neg * sig * 10^exp and  *)
(* keeps the coefficient and exponent it was built with.                   *)
(***************************************************************************)
Finite(neg, sig, exp) == [form |-> 0, neg |-> neg, sig |-> sig, exp |-> exp]

Inf(neg) == [form |-> 1, neg |-> neg, sig |-> << >>, exp |-> 0]

NaN(neg) == [form |-> 2, neg |-> neg, sig |-> << >>, exp |-> 0]

\* decimal128.Decimal{}: all bits zero, that is +0 with the smallest exponent
ZeroDecimal == Finite(FALSE, << >>, minUnbiasedExponent)

IsNaN(dd) == dd.form = 2

IsInf(dd) == dd.form = 1

IsFinite(dd) == dd.form = 0

IsZero(dd) == dd.form = 0 /\ dd.sig = << >>

\* Decimal.Decompose: the parts of the value; no coefficient for Inf and NaN
Decompose(dd) ==
    IF dd.form = 0
    THEN [form |-> 0, neg |-> dd.neg, coef |-> dd.sig, exp |-> dd.exp]
    ELSE [form |-> dd.form, neg |-> dd.neg, coef |-> << >>, exp |-> 0]

\* Decimal.Compose: sets the receiver from the parts; when the parts are not
\* representable it returns an error and leaves the receiver as it was
ComposeFails(form, coef, exp) ==
    \/ form \notin {0, 1, 2}
    \/ /\ form = 0
       /\ \/ exp < minUnbiasedExponent
          \/ exp > maxUnbiasedExponent
          \/ Cmp(coef, Pow2_113) >= 0

Compose(dec, form, neg, coef, exp) ==
    IF ComposeFails(form, coef, exp) THEN dec
    ELSE IF form = 0 THEN Finite(neg, coef, exp)
    ELSE IF form = 1 THEN Inf(neg)
    ELSE NaN(neg)

\* the value without trailing zeros in the coefficient (same number)
Normal(dd) ==
    IF dd.form # 0 THEN dd
    ELSE IF dd.sig = << >> THEN Finite(FALSE, << >>, 0)
    ELSE LET z == TrailingZeros(dd.sig)
         IN  Finite(dd.neg, SubSeq(dd.sig, 1, Len(dd.sig) - z), dd.exp + z)

\* Decimal.Equal: numeric equality; +0 = -0, NaN equals nothing
Equal(a, b) ==
    /\ a.form # 2
    /\ b.form # 2
    /\ Normal(a) = Normal(b)

\* the integer part of a finite value, truncated towards zero (magnitude)
TruncInt(dd) ==
    IF dd.exp >= 0 THEN ShiftLeft(dd.sig, dd.exp) ELSE ShiftRight(dd.sig, 0 - dd.exp)

\* whether a finite value has a non-zero fractional part
HasFraction(dd) ==
    /\ dd.form = 0
    /\ dd.exp < 0
    /\ \E i \in 1..Len(dd.sig) : i > Len(dd.sig) + dd.exp /\ dd.sig[i] # 0

\* a signed integer: big.Int, int64
SInt(neg, abs) == [neg |-> neg /\ abs # << >>, abs |-> abs]

\* big.Int.IsInt64
IsInt64(bi) ==
    IF bi.neg THEN Cmp(bi.abs, MinInt64Abs) <= 0 ELSE Cmp(bi.abs, MaxInt64) <= 0

\* decimal128.FromInt64
FromInt64(n) == Finite(n.neg, n.abs, 0)

\* Decimal.Int64: the value truncated towards zero; ok is false, and the
\* result saturated, when the value is NaN, infinite or outside int64
Int64(dd) ==
    IF dd.form = 2 THEN [i |-> SInt(FALSE, << >>), ok |-> FALSE]
    ELSE IF dd.form = 1
    THEN [i |-> SInt(dd.neg, IF dd.neg THEN MinInt64Abs ELSE MaxInt64), ok |-> FALSE]
    ELSE LET bi == SInt(dd.neg, TruncInt(dd))
         IN  IF IsInt64(bi) THEN [i |-> bi, ok |-> TRUE]
             ELSE [i |-> SInt(dd.neg, IF dd.neg THEN MinInt64Abs ELSE MaxInt64),
                   ok |-> FALSE]

\* Decimal.Int: the value truncated towards zero as a big.Int; it panics for
\* NaN and for an infinite value
BigInt(dd) ==
    IF dd.form # 0 THEN [panic |-> TRUE, neg |-> FALSE, abs |-> << >>]
    ELSE [panic |-> FALSE, neg |-> dd.neg /\ TruncInt(dd) # << >>, abs |-> TruncInt(dd)]

\* the decimal digits as text
DigitChars == <<"0", "1", "2", "3", "4", "5", "6", "7", "8", "9">>

RECURSIVE DigitString(_)
DigitString(a) ==
    IF a = << >> THEN "" ELSE DigitChars[Head(a) + 1] \o DigitString(Tail(a))

\* Decimal.String of a value that is written without an exponent: the digits
\* of the coefficient with the point -exp places from the right
String(dd) ==
    IF dd.form = 2 THEN "NaN"
    ELSE IF dd.form = 1 THEN (IF dd.neg THEN "-Inf" ELSE "Inf")
    ELSE LET n == Len(dd.sig)
             body == IF dd.sig = << >> THEN "0"
                     ELSE IF dd.exp >= 0 THEN DigitString(ShiftLeft(dd.sig, dd.exp))
                     ELSE IF n > 0 - dd.exp
                     THEN DigitString(SubSeq(dd.sig, 1, n + dd.exp)) \o "."
                             \o DigitString(SubSeq(dd.sig, n + dd.exp + 1, n))
                     ELSE "0." \o DigitString(Zeros((0 - dd.exp) - n) \o dd.sig)
         IN  (IF dd.neg THEN "-" ELSE "") \o body

(***************************************************************************)
(* The wire values of pgtype.                                              *)
(***************************************************************************)
\* a *big.Int: nil, or a sign and a magnitude (zero has no sign)
NilInt == [nil |-> TRUE, neg |-> FALSE, abs |-> << >>]

BigIntOf(neg, abs) == [nil |-> FALSE, neg |-> neg /\ abs # << >>, abs |-> abs]

\* pgtype.InfinityModifier
PgFinite == 0

PgInfinity == 1

PgNegativeInfinity == 0 - PgInfinity

\* InfinityModifier.String, which %v prints
InfinityModifierString(im) ==
    CASE im = PgFinite -> "finite"
      [] im = PgInfinity -> "infinity"
      [] im = PgNegativeInfinity -> "-infinity"
      [] OTHER -> "invalid"

Numeric(int, exp, valid, nan, inf) ==
    [Int |-> int, Exp |-> exp, Valid |-> valid, NaN |-> nan, InfinityModifier |-> inf]

\* pgtype.Numeric{}
ZeroNumeric == Numeric(NilInt, 0, FALSE, FALSE, PgFinite)

\* a float64: NaN, an infinity, or a finite value given by the digits and the
\* decimal exponent of its shortest decimal form that parses back to it
FloatNaN == [class |-> "nan", neg |-> FALSE, digits |-> << >>, exp |-> 0]

FloatInf(neg) == [class |-> "inf", neg |-> neg, digits |-> << >>, exp |-> 0]

FloatFinite(neg, digits, exp) ==
    [class |-> "finite", neg |-> neg, digits |-> digits, exp |-> exp]

FloatZero == FloatFinite(FALSE, << >>, 0)

\* %v of a float64 that is infinite
FloatInfString(f) == IF f.neg THEN "-Inf" ELSE "+Inf"

Float8(f, valid) == [Float64 |-> f, Valid |-> valid]

\* pgtype.Float8{}
ZeroFloat8 == Float8(FloatZero, FALSE)

Int8(i, valid) == [Int64 |-> i, Valid |-> valid]

\* pgtype.Int8{}
ZeroInt8 == Int8(SInt(FALSE, << >>), FALSE)

\* no value: a call that returns only an error, or that panicked
None == [none |-> TRUE]

(***************************************************************************)
(* Errors (decimal.go:17-25) and panics.                                   *)
(***************************************************************************)
NoError == "nil"

ErrScanNull == "cannot scan NULL into *decimal128.Decimal"

ErrScanNaN == "cannot scan NaN into *decimal128.Decimal"

\* faulty variant: the message does not carry the offending value
ErrScanInf_NoValue(v) == "cannot scan Infinity into *decimal128.Decimal"

ErrScanInf(v) == "cannot scan " \o v \o " into *decimal128.Decimal"

ErrRange == "cannot convert %v to int64"

PanicBitLen == "panic: bitlen outside of range"

PanicNil == "panic: nil pointer dereference"

PanicInt == "panic: Decimal.Int of a value that is not finite"

\* a panic while NullDecimal.NumericValue holds a buffer
PanicDecompose == "panic: Decompose"

IsPanic(e) == e \in {PanicBitLen, PanicNil, PanicInt, PanicDecompose}

(***************************************************************************)
(* math/big, strconv and the float conversions of decimal128.              *)
(***************************************************************************)
\* big.Int.Sign
Sign(x) == IF x.abs = << >> THEN 0 ELSE IF x.neg THEN 0 - 1 ELSE 1

\* big.Int.Bytes: the magnitude, without the sign
Bytes(x) == x.abs

\* new(big.Int).SetBytes: the non-negative integer of the bytes
SetBytes(value) == BigIntOf(FALSE, Strip(value))

\* big.Int.Neg: zero stays unsigned
Neg(z) == BigIntOf(~z.neg, z.abs)

\* big.Int.BitLen() > 128
BitLenOver128(x) == Cmp(x.abs, Pow2_128) >= 0

\* faulty variant: no digits after the point are formatted
FormatFloat_NoFraction(f) ==
    IF f.exp >= 0
    THEN [neg |-> f.neg, digits |-> f.digits \o Zeros(f.exp), scale |-> 0]
    ELSE [neg |-> f.neg, digits |-> ShiftRight(f.digits, 0 - f.exp), scale |-> 0]

\* strconv.FormatFloat(f, 'f', -1, 64) of a finite float: a decimal literal
\* without exponent, as its sign, its digits and the number of digits after
\* the point
FormatFloat(f) ==
    IF f.exp >= 0
    THEN [neg |-> f.neg, digits |-> f.digits \o Zeros(f.exp), scale |-> 0]
    ELSE [neg |-> f.neg,
          digits |-> Zeros((0 - f.exp) - Len(f.digits) + 1) \o f.digits,
          scale |-> 0 - f.exp]

\* the digits a coefficient can always hold
maxDigits == 34

\* decimal128.MustParse of such a literal: the digits are the coefficient; of
\* a literal too long for a coefficient the last digits go into the exponent
\* (FormatFloat pads with zeros there, so nothing is rounded away)
MustParse(lit) ==
    LET s == Strip(lit.digits)
        k == IF Cmp(s, Pow2_113) < 0 THEN 0
             ELSE IF Cmp(ShiftRight(s, Len(s) - (maxDigits + 1)), Pow2_113) < 0
             THEN Len(s) - (maxDigits + 1)
             ELSE Len(s) - maxDigits
    IN  Finite(lit.neg, ShiftRight(s, k), k - lit.scale)

\* the largest and smallest decimal exponents of a finite non-zero float64
MaxFloatExp10 == 308

MinFloatExp10 == 0 - 324

\* the significant digits a float64 always keeps
FloatDigits == 15

\* Decimal.Float64: the nearest float64.  A value of at most FloatDigits
\* significant digits has a float64 whose shortest form is the value itself;
\* a longer one is cut to FloatDigits digits here (an approximation of the
\* binary rounding)
Float64(dd) ==
    IF dd.form = 2 THEN FloatNaN
    ELSE IF dd.form = 1 THEN FloatInf(dd.neg)
    ELSE IF dd.sig = << >> THEN FloatFinite(dd.neg, << >>, 0)
    ELSE LET n == Normal(dd)
             top == Len(n.sig) + n.exp - 1
             cut == IF Len(n.sig) > FloatDigits THEN Len(n.sig) - FloatDigits ELSE 0
             m == Normal(Finite(n.neg, ShiftRight(n.sig, cut), n.exp + cut))
         IN  IF top > MaxFloatExp10 THEN FloatInf(dd.neg)
             ELSE IF top < MinFloatExp10 THEN FloatFinite(dd.neg, << >>, 0)
             ELSE FloatFinite(m.neg, m.sig, m.exp)

(***************************************************************************)
(* Decimal (decimal.go:15-133).  A Scan method returns the destination it  *)
(* leaves and its error; a Value method returns its wire value and error.  *)
(***************************************************************************)
Scanned(dst, err) == [d |-> dst, err |-> err]

Returned(ret, err) == [ret |-> ret, err |-> err]

\* faulty variant: the sign of the magnitude is not handed to Compose
composeDecimal_Unsigned(v) == Compose(ZeroDecimal, 0, FALSE, Bytes(v.Int), v.Exp)

\* faulty variant: the exponent is handed to Compose with the opposite sign
composeDecimal_ExpNegated(v) ==
    IF Sign(v.Int) < 0
    THEN Compose(ZeroDecimal, 0, TRUE, Bytes(v.Int), 0 - v.Exp)
    ELSE Compose(ZeroDecimal, 0, FALSE, Bytes(v.Int), 0 - v.Exp)

\* faulty variant: the trailing zeros of the magnitude are dropped and the
\* exponent is left as it was
composeDecimal_ZerosDropped(v) ==
    LET c == ShiftRight(Bytes(v.Int), TrailingZeros(Bytes(v.Int)))
    IN  IF Sign(v.Int) < 0
        THEN Compose(ZeroDecimal, 0, TRUE, c, v.Exp)
        ELSE Compose(ZeroDecimal, 0, FALSE, c, v.Exp)

composeDecimal(v) ==
    LET dec == ZeroDecimal
    IN  IF Sign(v.Int) < 0
        THEN Compose(dec, 0, TRUE, Bytes(v.Int), v.Exp)
        ELSE Compose(dec, 0, FALSE, Bytes(v.Int), v.Exp)

\* faulty variant: the NaN flag is tested before the validity flag
Decimal_ScanNumeric_NaNFirst(dst, v) ==
    IF v.NaN THEN Scanned(dst, ErrScanNaN)
    ELSE IF ~v.Valid THEN Scanned(dst, ErrScanNull)
    ELSE IF v.InfinityModifier # PgFinite
    THEN Scanned(dst, ErrScanInf(InfinityModifierString(v.InfinityModifier)))
    ELSE IF v.Int.nil THEN Scanned(dst, PanicNil)
    ELSE IF BitLenOver128(v.Int) THEN Scanned(dst, PanicBitLen)
    ELSE Scanned(composeDecimal(v), NoError)

Decimal_ScanNumeric(dst, v) ==
    IF ~v.Valid THEN Scanned(dst, ErrScanNull)
    ELSE IF v.NaN THEN Scanned(dst, ErrScanNaN)
    ELSE IF v.InfinityModifier # PgFinite
    THEN Scanned(dst, ErrScanInf(InfinityModifierString(v.InfinityModifier)))
    ELSE IF v.Int.nil THEN Scanned(dst, PanicNil)
    ELSE IF BitLenOver128(v.Int) THEN Scanned(dst, PanicBitLen)
    ELSE Scanned(composeDecimal(v), NoError)

\* faulty variant: the coefficient is sent without its trailing zeros
Decimal_NumericValue_Canonical(dd) ==
    LET p == Decompose(Normal(dd))
        z == SetBytes(p.coef)
    IN  Returned(Numeric(IF dd.neg THEN Neg(z) ELSE z, p.exp, TRUE, FALSE,
                         IF p.form = 1 THEN PgInfinity ELSE PgFinite), NoError)

\* faulty variant: an infinite value with the sign set is sent as -infinity
Decimal_NumericValue_SignedInfinity(dd) ==
    LET p == Decompose(dd)
        inf == CASE p.form = 0 -> PgFinite
                 [] p.form = 1 -> IF p.neg THEN PgNegativeInfinity ELSE PgInfinity
                 [] p.form = 2 -> IF p.neg THEN PgNegativeInfinity ELSE PgFinite
                 [] OTHER -> PgFinite
        z == SetBytes(p.coef)
    IN  Returned(Numeric(IF p.neg THEN Neg(z) ELSE z, p.exp, TRUE, FALSE, inf), NoError)

\* faulty variant: a NaN is sent with the NaN flag
Decimal_NumericValue_NaNFlagged(dd) ==
    LET p == Decompose(dd)
        inf == CASE p.form = 0 -> PgFinite
                 [] p.form = 1 -> PgInfinity
                 [] p.form = 2 -> IF p.neg THEN PgNegativeInfinity ELSE PgFinite
                 [] OTHER -> PgFinite
        z == SetBytes(p.coef)
    IN  Returned(Numeric(IF p.neg THEN Neg(z) ELSE z, p.exp, TRUE, p.form = 2, inf),
                 NoError)

Decimal_NumericValue(dd) ==
    LET p == Decompose(dd)
        inf == CASE p.form = 0 -> PgFinite
                 [] p.form = 1 -> PgInfinity
                 [] p.form = 2 -> IF p.neg THEN PgNegativeInfinity ELSE PgFinite
                 [] OTHER -> PgFinite
        z == SetBytes(p.coef)
    IN  Returned(Numeric(IF p.neg THEN Neg(z) ELSE z, p.exp, TRUE, FALSE, inf), NoError)

\* faulty variant: the destination is cleared before the float is looked at
Decimal_ScanFloat64_ClearsFirst(dst, v) ==
    IF ~v.Valid THEN Scanned(ZeroDecimal, ErrScanNull)
    ELSE IF v.Float64.class = "nan" THEN Scanned(ZeroDecimal, ErrScanNaN)
    ELSE IF v.Float64.class = "inf"
    THEN Scanned(ZeroDecimal, ErrScanInf(FloatInfString(v.Float64)))
    ELSE Scanned(MustParse(FormatFloat(v.Float64)), NoError)

Decimal_ScanFloat64(dst, v) ==
    IF ~v.Valid THEN Scanned(dst, ErrScanNull)
    ELSE IF v.Float64.class = "nan" THEN Scanned(dst, ErrScanNaN)
    ELSE IF v.Float64.class = "inf"
    THEN Scanned(dst, ErrScanInf(FloatInfString(v.Float64)))
    ELSE Scanned(MustParse(FormatFloat(v.Float64)), NoError)

Decimal_Float64Value(dd) == Returned(Float8(Float64(dd), TRUE), NoError)

\* faulty variant: a NULL integer leaves the destination as it was
Decimal_ScanInt64_KeepsValue(dst, v) ==
    IF ~v.Valid THEN Scanned(dst, NoError)
    ELSE Scanned(FromInt64(v.Int64), NoError)

Decimal_ScanInt64(dst, v) ==
    IF ~v.Valid THEN Scanned(ZeroDecimal, NoError)
    ELSE Scanned(FromInt64(v.Int64), NoError)

\* faulty variant: the range is taken symmetric, so math.MinInt64 is refused
Decimal_Int64Value_Symmetric(dd) ==
    IF IsNaN(dd) THEN Returned(Int8(SInt(FALSE, << >>), FALSE), NoError)
    ELSE LET r == Int64(dd)
         IN  IF ~r.ok \/ r.i.abs = MinInt64Abs THEN Returned(ZeroInt8, ErrRange)
             ELSE Returned(Int8(r.i, TRUE), NoError)

Decimal_Int64Value(dd) ==
    IF IsNaN(dd) THEN Returned(Int8(SInt(FALSE, << >>), FALSE), NoError)
    ELSE LET r == Int64(dd)
         IN  IF ~r.ok THEN Returned(ZeroInt8, ErrRange)
             ELSE Returned(Int8(r.i, TRUE), NoError)

(***************************************************************************)
(* NullDecimal (decimal.go:135-235).                                       *)
(***************************************************************************)
NullDecimal(dec, valid) == [Decimal |-> dec, Valid |-> valid]

\* NullDecimal{}
ZeroNullDecimal == NullDecimal(ZeroDecimal, FALSE)

\* faulty variant: a NULL numeric clears Valid and leaves the Decimal
NullDecimal_ScanNumeric_KeepsDecimal(dst, v) ==
    IF ~v.Valid THEN Scanned(NullDecimal(dst.Decimal, FALSE), NoError)
    ELSE IF v.NaN THEN Scanned(dst, ErrScanNaN)
    ELSE IF v.InfinityModifier # PgFinite
    THEN Scanned(dst, ErrScanInf(InfinityModifierString(v.InfinityModifier)))
    ELSE IF v.Int.nil THEN Scanned(dst, PanicNil)
    ELSE Scanned(NullDecimal(composeDecimal(v), TRUE), NoError)

\* faulty variant: the infinity modifier is tested before the NaN flag
NullDecimal_ScanNumeric_InfFirst(dst, v) ==
    IF ~v.Valid THEN Scanned(ZeroNullDecimal, NoError)
    ELSE IF v.InfinityModifier # PgFinite
    THEN Scanned(dst, ErrScanInf(InfinityModifierString(v.InfinityModifier)))
    ELSE IF v.NaN THEN Scanned(dst, ErrScanNaN)
    ELSE IF v.Int.nil THEN Scanned(dst, PanicNil)
    ELSE Scanned(NullDecimal(composeDecimal(v), TRUE), NoError)

NullDecimal_ScanNumeric(dst, v) ==
    IF ~v.Valid THEN Scanned(ZeroNullDecimal, NoError)
    ELSE IF v.NaN THEN Scanned(dst, ErrScanNaN)
    ELSE IF v.InfinityModifier # PgFinite
    THEN Scanned(dst, ErrScanInf(InfinityModifierString(v.InfinityModifier)))
    ELSE IF v.Int.nil THEN Scanned(dst, PanicNil)
    ELSE Scanned(NullDecimal(composeDecimal(v), TRUE), NoError)

NullDecimal_NumericValue(n) ==
    IF ~n.Valid THEN Returned(ZeroNumeric, NoError)
    ELSE IF IsNaN(n.Decimal) THEN Returned(ZeroNumeric, NoError)
    ELSE LET p == Decompose(n.Decimal)
             z == SetBytes(p.coef)
         IN  Returned(Numeric(IF p.neg THEN Neg(z) ELSE z, p.exp, TRUE, FALSE, PgFinite),
                      NoError)

\* faulty variant: an infinite float is parsed like a finite one
NullDecimal_ScanFloat64_InfParsed(dst, v) ==
    IF ~v.Valid THEN Scanned(ZeroNullDecimal, NoError)
    ELSE IF v.Float64.class = "nan" THEN Scanned(dst, ErrScanNaN)
    ELSE IF v.Float64.class = "inf"
    THEN Scanned(NullDecimal(Inf(v.Float64.neg), TRUE), NoError)
    ELSE Scanned(NullDecimal(MustParse(FormatFloat(v.Float64)), TRUE), NoError)

\* faulty variant: a NULL float is refused, as Decimal.ScanFloat64 refuses it
NullDecimal_ScanFloat64_NullError(dst, v) ==
    IF ~v.Valid THEN Scanned(dst, ErrScanNull)
    ELSE IF v.Float64.class = "nan" THEN Scanned(dst, ErrScanNaN)
    ELSE IF v.Float64.class = "inf"
    THEN Scanned(dst, ErrScanInf(FloatInfString(v.Float64)))
    ELSE Scanned(NullDecimal(MustParse(FormatFloat(v.Float64)), TRUE), NoError)

NullDecimal_ScanFloat64(dst, v) ==
    IF ~v.Valid THEN Scanned(ZeroNullDecimal, NoError)
    ELSE IF v.Float64.class = "nan" THEN Scanned(dst, ErrScanNaN)
    ELSE IF v.Float64.class = "inf"
    THEN Scanned(dst, ErrScanInf(FloatInfString(v.Float64)))
    ELSE Scanned(NullDecimal(MustParse(FormatFloat(v.Float64)), TRUE), NoError)

NullDecimal_Float64Value(n) ==
    IF ~n.Valid THEN Returned(ZeroFloat8, NoError)
    ELSE Returned(Float8(Float64(n.Decimal), TRUE), NoError)

NullDecimal_ScanInt64(dst, v) ==
    IF ~v.Valid THEN Scanned(ZeroNullDecimal, NoError)
    ELSE Scanned(NullDecimal(FromInt64(v.Int64), TRUE), NoError)

\* faulty variant: the big.Int is narrowed without the IsInt64 test
NullDecimal_Int64Value_NoRangeCheck(n) ==
    IF ~n.Valid THEN Returned(ZeroInt8, NoError)
    ELSE IF IsNaN(n.Decimal) THEN Returned(ZeroInt8, NoError)
    ELSE LET bi == BigInt(n.Decimal)
         IN  IF bi.panic THEN Returned(None, PanicInt)
             ELSE Returned(Int8(SInt(bi.neg, bi.abs), TRUE), NoError)

\* faulty variant: a NaN is handed to the conversion like any other value
NullDecimal_Int64Value_NaNConverted(n) ==
    IF ~n.Valid THEN Returned(ZeroInt8, NoError)
    ELSE LET bi == BigInt(n.Decimal)
         IN  IF bi.panic THEN Returned(None, PanicInt)
             ELSE IF ~IsInt64(bi) THEN Returned(ZeroInt8, ErrRange)
             ELSE Returned(Int8(SInt(bi.neg, bi.abs), TRUE), NoError)

NullDecimal_Int64Value(n) ==
    IF ~n.Valid THEN Returned(ZeroInt8, NoError)
    ELSE IF IsNaN(n.Decimal) THEN Returned(ZeroInt8, NoError)
    ELSE LET bi == BigInt(n.Decimal)
         IN  IF bi.panic THEN Returned(None, PanicInt)
             ELSE IF ~IsInt64(bi) THEN Returned(ZeroInt8, ErrRange)
             ELSE Returned(Int8(SInt(bi.neg, bi.abs), TRUE), NoError)

(***************************************************************************)
(* NumericCodec (decimal.go:305-326).  The bytes of a column are what pgx   *)
(* reads from them: nothing (SQL NULL), a numeric, or bytes that are not a  *)
(* numeric.                                                                *)
(***************************************************************************)
\* a nil interface value
NilAny == [nilAny |-> TRUE]

NilSrc == [nil |-> TRUE, bad |-> FALSE, numeric |-> None]

BadSrc == [nil |-> FALSE, bad |-> TRUE, numeric |-> None]

Src(v) == [nil |-> FALSE, bad |-> FALSE, numeric |-> v]

ErrNoPlan == "PlanScan did not find a plan"

\* the error of pgx for bytes that are not a numeric
ErrDecode == "invalid numeric"

(***************************************************************************)
(* The plan-wrapping hooks (decimal.go:237-303).  A value of type any is   *)
(* its dynamic type and its content; a pointer is the place it points to   *)
(* (ref) and what is there (elem).                                         *)
(***************************************************************************)
AnyOf(type, v) == [type |-> type, val |-> v]

Pointer(ref, elem) == [ref |-> ref, elem |-> elem]

\* a nil plan
NilPlan == "nil"

\* the plans that can be set as next: the numeric plan of pgx, which calls
\* NumericValue or ScanNumeric of a Decimal or a NullDecimal, and a plan that
\* fails
NextPlans == {"numeric", "failing"}

ErrNextPlan == "next plan failed"

ErrUnsupported == "unsupported type"

Encoded(newBuf, err) == [newBuf |-> newBuf, err |-> err]

\* plan.next.Encode(value, buf)
EncodePlan_Encode(next, value, buf) ==
    IF next = "failing" THEN Encoded(<< >>, ErrNextPlan)
    ELSE IF value.type = "Decimal"
    THEN LET r == Decimal_NumericValue(value.val)
         IN  Encoded(Append(buf, r.ret), r.err)
    ELSE IF value.type = "NullDecimal"
    THEN LET r == NullDecimal_NumericValue(value.val)
         IN  Encoded(Append(buf, r.ret), r.err)
    ELSE Encoded(<< >>, ErrUnsupported)

\* plan.next.Scan(src, dst): the error, and what dst points to afterwards
ScanPlan_Scan(next, src, dst) ==
    IF next = "failing" THEN Scanned(dst.val.elem, ErrNextPlan)
    ELSE IF src.bad THEN Scanned(dst.val.elem, ErrDecode)
    ELSE IF dst.type = "*Decimal" THEN Decimal_ScanNumeric(dst.val.elem, src.numeric)
    ELSE IF dst.type = "*NullDecimal" THEN NullDecimal_ScanNumeric(dst.val.elem, src.numeric)
    ELSE Scanned(dst.val.elem, ErrUnsupported)

Wrapped(plan, nextValue, ok) == [plan |-> plan, nextValue |-> nextValue, ok |-> ok]

\* faulty variant: the value is handed on with the type it came with
TryWrapNumericEncodePlan_NotConverted(value) ==
    IF value.type = "decimal128.Decimal"
    THEN Wrapped("wrapDecimalEncodePlan", value, TRUE)
    ELSE IF value.type = "NullDecimal"
    THEN Wrapped("wrapNullDecimalEncodePlan", value, TRUE)
    ELSE Wrapped(NilPlan, NilAny, FALSE)

TryWrapNumericEncodePlan(value) ==
    IF value.type = "decimal128.Decimal"
    THEN Wrapped("wrapDecimalEncodePlan", AnyOf("Decimal", value.val), TRUE)
    ELSE IF value.type = "NullDecimal"
    THEN Wrapped("wrapNullDecimalEncodePlan", AnyOf("NullDecimal", value.val), TRUE)
    ELSE Wrapped(NilPlan, NilAny, FALSE)

PanicTypeAssertion == "panic: interface conversion"

\* wrapDecimalEncodePlan.Encode
wrapDecimalEncodePlan_Encode(next, value, buf) ==
    IF value.type # "decimal128.Decimal" THEN Encoded(<< >>, PanicTypeAssertion)
    ELSE EncodePlan_Encode(next, AnyOf("Decimal", value.val), buf)

\* wrapNullDecimalEncodePlan.Encode
wrapNullDecimalEncodePlan_Encode(next, value, buf) ==
    IF value.type # "NullDecimal" THEN Encoded(<< >>, PanicTypeAssertion)
    ELSE EncodePlan_Encode(next, AnyOf("NullDecimal", value.val), buf)

TryWrapNumericScanPlan(target) ==
    IF target.type = "*decimal128.Decimal"
    THEN Wrapped("wrapDecimalScanPlan", AnyOf("*Decimal", target.val), TRUE)
    ELSE IF target.type = "*NullDecimal"
    THEN Wrapped("wrapNullDecimalScanPlan", AnyOf("*NullDecimal", target.val), TRUE)
    ELSE Wrapped(NilPlan, NilAny, FALSE)

\* wrapDecimalScanPlan.Scan
wrapDecimalScanPlan_Scan(next, src, dst) ==
    IF dst.type # "*decimal128.Decimal" THEN Scanned(None, PanicTypeAssertion)
    ELSE ScanPlan_Scan(next, src, AnyOf("*Decimal", dst.val))

\* wrapNullDecimalScanPlan.Scan
wrapNullDecimalScanPlan_Scan(next, src, dst) ==
    IF dst.type # "*NullDecimal" THEN Scanned(None, PanicTypeAssertion)
    ELSE ScanPlan_Scan(next, src, AnyOf("*NullDecimal", dst.val))

\* faulty variant: a failed scan returns the target along with the error
NumericCodec_DecodeValue_TargetOnError(src, planFound) ==
    IF src.nil THEN Returned(NilAny, NoError)
    ELSE IF ~planFound THEN Returned(NilAny, ErrNoPlan)
    ELSE LET target == ZeroDecimal
             r == wrapDecimalScanPlan_Scan("numeric", src,
                        AnyOf("*decimal128.Decimal", Pointer("target", target)))
         IN  IF IsPanic(r.err) THEN Returned(None, r.err)
             ELSE Returned(r.d, r.err)

\* NumericCodec.DecodeValue; planFound says whether the type map has a scan
\* plan for the column
NumericCodec_DecodeValue(src, planFound) ==
    IF src.nil THEN Returned(NilAny, NoError)
    ELSE IF ~planFound THEN Returned(NilAny, ErrNoPlan)
    ELSE LET target == ZeroDecimal
             r == wrapDecimalScanPlan_Scan("numeric", src,
                        AnyOf("*decimal128.Decimal", Pointer("target", target)))
         IN  IF IsPanic(r.err) THEN Returned(None, r.err)
             ELSE IF r.err # NoError THEN Returned(NilAny, r.err)
             ELSE Returned(r.d, NoError)

(***************************************************************************)
(* The values the callers hand in.                                         *)
(***************************************************************************)
Nines34 == [i \in 1..34 |-> 9]

\* 2^113 - 1, the largest coefficient
MaxCoef ==
    <<1,0,3,8,4,5,9,3,7,1,7,0,6,9,6,5,5,2,5,7,0,6,0,9,9,2,6,5,8,4,4,0,1,9,1>>

\* 2^128 - 1, the largest magnitude of 128 bits
MaxUint128 ==
    <<3,4,0,2,8,2,3,6,6,9,2,0,9,3,8,4,6,3,4,6,3,3,7,4,6,0,7,4,3,1,7,6,8,2,1,1,4,5,5>>

SmallCoefs == {ToDigits(n) : n \in 0..MaxSmallCoef}

Coefs ==
    SmallCoefs \cup {<<1,5>>, <<1,0>>, MaxInt64, MinInt64Abs, MaxInt64 \o <<5>>, Nines34, MaxCoef}

SmallExps == (0 - MaxSmallExp)..MaxSmallExp

Exps == SmallExps \cup {minUnbiasedExponent, maxUnbiasedExponent}

FiniteDecimals == {Finite(neg, c, e) : neg \in BOOLEAN, c \in Coefs, e \in Exps}

Decimals == FiniteDecimals \cup {Inf(neg) : neg \in BOOLEAN} \cup {NaN(neg) : neg \in BOOLEAN}

NullDecimals ==
    {NullDecimal(v, TRUE) : v \in Decimals}
        \cup {NullDecimal(v, FALSE) :
                v \in {ZeroDecimal, Finite(TRUE, <<1,5>>, 0 - 1), NaN(FALSE), Inf(TRUE)}}

InfinityModifiers == {PgNegativeInfinity, PgFinite, PgInfinity}

\* the magnitude and the exponent of the numeric of TestConvertDecimal128
TestMagnitude == <<9,7,8,9,0,1,2,3,4,5,6,7,8,9,0,1,2,3,4,5,6,7,8,9>>

TestExp == 0 - 9

TestNumeric(neg) == Numeric(BigIntOf(neg, TestMagnitude), TestExp, TRUE, FALSE, PgFinite)

\* numerics with trailing zeros in the magnitude: -1500 x 10^-3, which is
\* -15 x 10^-1, and 10^MaxZeros x 10^-MaxZeros, which is 1
MaxZeros == 39

AlternateNumerics ==
    {Numeric(BigIntOf(TRUE, <<1,5,0,0>>), 0 - 3, TRUE, FALSE, PgFinite),
     Numeric(BigIntOf(FALSE, <<1>> \o Zeros(MaxZeros)), 0 - MaxZeros, TRUE, FALSE, PgFinite)}

\* finite numerics a Decimal can hold; finite numerics with a magnitude or an
\* exponent outside a Decimal, or without magnitude; the numeric of the test;
\* and numerics that are NULL, NaN or infinite, with and without a magnitude
NumericInputs ==
    {Numeric(BigIntOf(neg, c), e, TRUE, FALSE, PgFinite) :
        neg \in BOOLEAN, c \in Coefs, e \in Exps}
    \cup {Numeric(BigIntOf(neg, c), 0, TRUE, FALSE, PgFinite) :
            neg \in BOOLEAN, c \in {Pow2_113, MaxUint128, Pow2_128}}
    \cup {Numeric(BigIntOf(FALSE, <<1>>), e, TRUE, FALSE, PgFinite) :
            e \in {minUnbiasedExponent - 1, maxUnbiasedExponent + 1}}
    \cup {TestNumeric(neg) : neg \in BOOLEAN}
    \cup AlternateNumerics
    \cup {Numeric(m, 0, valid, nan, inf) :
            m \in {NilInt, BigIntOf(TRUE, <<1>>)},
            valid \in BOOLEAN, nan \in BOOLEAN, inf \in InfinityModifiers}

FiniteFloats ==
    {FloatFinite(neg, dg, e) :
        neg \in BOOLEAN, dg \in SmallCoefs \cup {<<1,2,3,4,5,6>>}, e \in SmallExps \cup {0 - 3}}

\* with the floats at the ends of the range, 1e308 and the smallest subnormal
\* negated, and those that are not finite
Floats ==
    FiniteFloats
        \cup {FloatFinite(FALSE, <<1>>, MaxFloatExp10), FloatFinite(TRUE, <<5>>, MinFloatExp10)}
        \cup {FloatNaN, FloatInf(FALSE), FloatInf(TRUE)}

Float8Inputs ==
    {Float8(f, TRUE) : f \in Floats}
        \cup {Float8(f, FALSE) : f \in {FloatZero, FloatNaN, FloatInf(TRUE)}}

Int64s ==
    {SInt(neg, c) : neg \in BOOLEAN, c \in SmallCoefs \cup {<<1,2,3,4,5,6>>, MaxInt64}}
        \cup {SInt(TRUE, MinInt64Abs)}

Int8Inputs ==
    {Int8(i, TRUE) : i \in Int64s}
        \cup {Int8(i, FALSE) : i \in {SInt(FALSE, << >>), SInt(TRUE, MinInt64Abs)}}

\* the numerics pgx reads from the bytes of a column: valid, and without a
\* magnitude when NaN or infinite
Srcs ==
    {NilSrc, BadSrc}
        \cup {Src(Numeric(BigIntOf(TRUE, <<1,5>>), 0 - 1, TRUE, FALSE, PgFinite)),
              Src(Numeric(BigIntOf(FALSE, Pow2_128), 0, TRUE, FALSE, PgFinite)),
              Src(Numeric(NilInt, 0, TRUE, TRUE, PgFinite)),
              Src(Numeric(NilInt, 0, TRUE, FALSE, PgNegativeInfinity))}

\* the values pgx offers to TryWrapNumericEncodePlan
AnyValues ==
    {AnyOf("decimal128.Decimal", Finite(TRUE, <<1,5>>, 0 - 1)),
     AnyOf("Decimal", Finite(TRUE, <<1,5>>, 0 - 1)),
     AnyOf("NullDecimal", NullDecimal(Finite(TRUE, <<1,5>>, 0 - 1), TRUE)),
     AnyOf("NullDecimal", ZeroNullDecimal),
     AnyOf("string", [str |-> "1.5"]),
     AnyOf("nil", None)}

\* the targets pgx offers to TryWrapNumericScanPlan
AnyTargets ==
    {AnyOf("*decimal128.Decimal", Pointer("target", ZeroDecimal)),
     AnyOf("*Decimal", Pointer("target", ZeroDecimal)),
     AnyOf("*NullDecimal", Pointer("target", NullDecimal(Finite(FALSE, <<1>>, 0), TRUE))),
     AnyOf("*string", Pointer("target", [str |-> ""])),
     AnyOf("nil", None)}

(***************************************************************************)
(* The state: one object, a Decimal (d) or a NullDecimal (nd) as kind      *)
(* says, and the last call made on it: its method, its argument, what it   *)
(* returned, its error, and, when the argument was the wire value the      *)
(* preceding Value call returned (rt), the object that call encoded (src). *)
(***************************************************************************)
Kinds == {"Decimal", "NullDecimal"}

ScanCall(op, v, r, rt, old) ==
    [op |-> op, arg |-> v, ret |-> None, err |-> r.err, rt |-> rt,
     src |-> IF rt THEN old ELSE None]

ValueCall(op, r) ==
    [op |-> op, arg |-> None, ret |-> r.ret, err |-> r.err, rt |-> FALSE, src |-> None]

\* the wire value the preceding call returned, when it was one of ops
LastReturned(ops) == IF call.op \in ops /\ call.err = NoError THEN {call.ret} ELSE {}

Goroutines == 1..NumGoroutines

\* the buffers bufPool.New can make, and no buffer
Buffers == 1..NumGoroutines

NoBuf == 0

\* bufPool.New: a buffer in which nothing was written
NewBuf == << >>

\* no call of NullDecimal.NumericValue has begun and bufPool is empty
PoolIdle ==
    /\ pc = [g \in Goroutines |-> "idle"]
    /\ rcv = [g \in Goroutines |-> ZeroNullDecimal]
    /\ held = [g \in Goroutines |-> NoBuf]
    /\ pool = {}
    /\ mem = [b \in Buffers |-> NewBuf]
    /\ val = [g \in Goroutines |-> 0]

Init ==
    /\ kind \in Kinds
    /\ d \in (IF kind = "Decimal" THEN Decimals ELSE {ZeroDecimal})
    /\ nd \in (IF kind = "NullDecimal" THEN NullDecimals ELSE {ZeroNullDecimal})
    /\ call = [op |-> "new", arg |-> None, ret |-> None, err |-> NoError,
               rt |-> FALSE, src |-> None]
    /\ PoolIdle

DecimalScanNumeric ==
    /\ kind = "Decimal"
    /\ \E rt \in BOOLEAN :
         \E v \in (IF rt THEN LastReturned({"Decimal.NumericValue"}) ELSE NumericInputs) :
            LET r == Decimal_ScanNumeric(d, v)
            IN  /\ d' = r.d
                /\ call' = ScanCall("Decimal.ScanNumeric", v, r, rt, d)
    /\ UNCHANGED <<kind, nd>>
    /\ UNCHANGED poolVars

DecimalNumericValue ==
    /\ kind = "Decimal"
    /\ call' = ValueCall("Decimal.NumericValue", Decimal_NumericValue(d))
    /\ UNCHANGED <<kind, d, nd>>
    /\ UNCHANGED poolVars

DecimalScanFloat64 ==
    /\ kind = "Decimal"
    /\ \E rt \in BOOLEAN :
         \E v \in (IF rt THEN LastReturned({"Decimal.Float64Value"}) ELSE Float8Inputs) :
            LET r == Decimal_ScanFloat64(d, v)
            IN  /\ d' = r.d
                /\ call' = ScanCall("Decimal.ScanFloat64", v, r, rt, d)
    /\ UNCHANGED <<kind, nd>>
    /\ UNCHANGED poolVars

DecimalFloat64Value ==
    /\ kind = "Decimal"
    /\ call' = ValueCall("Decimal.Float64Value", Decimal_Float64Value(d))
    /\ UNCHANGED <<kind, d, nd>>
    /\ UNCHANGED poolVars

DecimalScanInt64 ==
    /\ kind = "Decimal"
    /\ \E rt \in BOOLEAN :
         \E v \in (IF rt THEN LastReturned({"Decimal.Int64Value"}) ELSE Int8Inputs) :
            LET r == Decimal_ScanInt64(d, v)
            IN  /\ d' = r.d
                /\ call' = ScanCall("Decimal.ScanInt64", v, r, rt, d)
    /\ UNCHANGED <<kind, nd>>
    /\ UNCHANGED poolVars

DecimalInt64Value ==
    /\ kind = "Decimal"
    /\ call' = ValueCall("Decimal.Int64Value", Decimal_Int64Value(d))
    /\ UNCHANGED <<kind, d, nd>>
    /\ UNCHANGED poolVars

NullDecimalScanNumeric ==
    /\ kind = "NullDecimal"
    /\ \E rt \in BOOLEAN :
         \E v \in (IF rt THEN LastReturned({"NullDecimal.NumericValue"}) ELSE NumericInputs) :
            LET r == NullDecimal_ScanNumeric(nd, v)
            IN  /\ nd' = r.d
                /\ call' = ScanCall("NullDecimal.ScanNumeric", v, r, rt, nd)
    /\ UNCHANGED <<kind, d>>
    /\ UNCHANGED poolVars

NullDecimalNumericValue ==
    /\ kind = "NullDecimal"
    /\ call' = ValueCall("NullDecimal.NumericValue", NullDecimal_NumericValue(nd))
    /\ UNCHANGED <<kind, d, nd>>
    /\ UNCHANGED poolVars

NullDecimalScanFloat64 ==
    /\ kind = "NullDecimal"
    /\ \E rt \in BOOLEAN :
         \E v \in (IF rt THEN LastReturned({"NullDecimal.Float64Value"}) ELSE Float8Inputs) :
            LET r == NullDecimal_ScanFloat64(nd, v)
            IN  /\ nd' = r.d
                /\ call' = ScanCall("NullDecimal.ScanFloat64", v, r, rt, nd)
    /\ UNCHANGED <<kind, d>>
    /\ UNCHANGED poolVars

NullDecimalFloat64Value ==
    /\ kind = "NullDecimal"
    /\ call' = ValueCall("NullDecimal.Float64Value", NullDecimal_Float64Value(nd))
    /\ UNCHANGED <<kind, d, nd>>
    /\ UNCHANGED poolVars

NullDecimalScanInt64 ==
    /\ kind = "NullDecimal"
    /\ \E rt \in BOOLEAN :
         \E v \in (IF rt THEN LastReturned({"NullDecimal.Int64Value"}) ELSE Int8Inputs) :
            LET r == NullDecimal_ScanInt64(nd, v)
            IN  /\ nd' = r.d
                /\ call' = ScanCall("NullDecimal.ScanInt64", v, r, rt, nd)
    /\ UNCHANGED <<kind, d>>
    /\ UNCHANGED poolVars

NullDecimalInt64Value ==
    /\ kind = "NullDecimal"
    /\ call' = ValueCall("NullDecimal.Int64Value", NullDecimal_Int64Value(nd))
    /\ UNCHANGED <<kind, d, nd>>
    /\ UNCHANGED poolVars

NumericCodecDecodeValue ==
    /\ \E src \in Srcs :
         \E planFound \in BOOLEAN :
            LET r == NumericCodec_DecodeValue(src, planFound)
            IN  call' = [op |-> "NumericCodec.DecodeValue", arg |-> src, ret |-> r.ret,
                         err |-> r.err, rt |-> FALSE, src |-> None]
    /\ UNCHANGED <<kind, d, nd>>
    /\ UNCHANGED poolVars

TryWrapNumericEncodePlanCall ==
    /\ \E value \in AnyValues :
         call' = [ValueCall("TryWrapNumericEncodePlan",
                            Returned(TryWrapNumericEncodePlan(value), NoError))
                     EXCEPT !.arg = value]
    /\ UNCHANGED <<kind, d, nd>>
    /\ UNCHANGED poolVars

\* SetNext and Encode of the plan that TryWrapNumericEncodePlan has just
\* returned, with the value it was returned for
WrappedEncodePlanEncode ==
    /\ call.op = "TryWrapNumericEncodePlan"
    /\ call.ret.ok
    /\ \E next \in NextPlans :
         LET r == IF call.ret.plan = "wrapDecimalEncodePlan"
                  THEN wrapDecimalEncodePlan_Encode(next, call.arg, << >>)
                  ELSE wrapNullDecimalEncodePlan_Encode(next, call.arg, << >>)
         IN  call' = [ValueCall("WrappedEncodePlan.Encode", Returned(r.newBuf, r.err))
                         EXCEPT !.arg = [plan |-> call.ret.plan, next |-> next,
                                         value |-> call.arg]]
    /\ UNCHANGED <<kind, d, nd>>
    /\ UNCHANGED poolVars

TryWrapNumericScanPlanCall ==
    /\ \E target \in AnyTargets :
         call' = [ValueCall("TryWrapNumericScanPlan",
                            Returned(TryWrapNumericScanPlan(target), NoError))
                     EXCEPT !.arg = target]
    /\ UNCHANGED <<kind, d, nd>>
    /\ UNCHANGED poolVars

\* SetNext and Scan of the plan that TryWrapNumericScanPlan has just returned,
\* with the target it was returned for; ret is what the target holds afterwards
WrappedScanPlanScan ==
    /\ call.op = "TryWrapNumericScanPlan"
    /\ call.ret.ok
    /\ \E next \in NextPlans :
         \E src \in Srcs \ {NilSrc} :
            LET r == IF call.ret.plan = "wrapDecimalScanPlan"
                     THEN wrapDecimalScanPlan_Scan(next, src, call.arg)
                     ELSE wrapNullDecimalScanPlan_Scan(next, src, call.arg)
            IN  call' = [ValueCall("WrappedScanPlan.Scan", Returned(r.d, r.err))
                            EXCEPT !.arg = [plan |-> call.ret.plan, next |-> next,
                                            src |-> src, dst |-> call.arg]]
    /\ UNCHANGED <<kind, d, nd>>
    /\ UNCHANGED poolVars

\* a destination as the caller makes it before rows are scanned into it: a
\* finite Decimal, or the zero NullDecimal
ScanInit ==
    /\ kind \in Kinds
    /\ d \in (IF kind = "Decimal" THEN FiniteDecimals ELSE {ZeroDecimal})
    /\ nd = ZeroNullDecimal
    /\ call = [op |-> "new", arg |-> None, ret |-> None, err |-> NoError,
               rt |-> FALSE, src |-> None]
    /\ PoolIdle

\* wire values are scanned into the destination, one after the other
ScanNext ==
    \/ DecimalScanNumeric
    \/ DecimalScanFloat64
    \/ DecimalScanInt64
    \/ NullDecimalScanNumeric
    \/ NullDecimalScanFloat64
    \/ NullDecimalScanInt64

ScanSpec == ScanInit /\ [][ScanNext]_vars

\* pgx plans an encode or a scan: it offers the value or target to the hooks
\* and uses the plan it gets
HookNext ==
    \/ TryWrapNumericEncodePlanCall
    \/ WrappedEncodePlanEncode
    \/ TryWrapNumericScanPlanCall
    \/ WrappedScanPlanScan

HookSpec == Init /\ [][HookNext]_vars

Next ==
    \/ DecimalScanNumeric
    \/ DecimalNumericValue
    \/ DecimalScanFloat64
    \/ DecimalFloat64Value
    \/ DecimalScanInt64
    \/ DecimalInt64Value
    \/ NullDecimalScanNumeric
    \/ NullDecimalNumericValue
    \/ NullDecimalScanFloat64
    \/ NullDecimalFloat64Value
    \/ NullDecimalScanInt64
    \/ NullDecimalInt64Value
    \/ NumericCodecDecodeValue

Spec == Init /\ [][Next]_vars

(***************************************************************************)
(* NullDecimal.NumericValue called by several goroutines at the same time  *)
(* (decimal.go:27-32, 158-178): each call is a copy of its receiver (rcv)  *)
(* and the buffer it took from bufPool (held), and goes through the lines  *)
(* of the method (pc).  bufPool holds the buffers that were put back       *)
(* (pool).  Whether Decompose returns or panics is left open.  A buffer    *)
(* has the bytes that were written to it (mem), as digits; value, the      *)
(* slice Decompose returns, is the first val digits of the buffer held.    *)
(***************************************************************************)
PoolReceivers ==
    {ZeroNullDecimal,
     NullDecimal(NaN(FALSE), TRUE),
     NullDecimal(Finite(TRUE, <<1,5>>, 0 - 1), TRUE),
     NullDecimal(Finite(FALSE, <<7>>, 0), TRUE)}

\* the buffers that are neither in bufPool nor held by a call
Fresh == {b \in Buffers : b \notin pool /\ \A g \in Goroutines : held[g] # b}

\* bufPool.Get: any buffer of the pool or, also when the pool is not empty, a
\* new one made by New
bufPool_Get ==
    pool \cup (IF Fresh = {} THEN {} ELSE {CHOOSE b \in Fresh : \A c \in Fresh : b <= c})

\* faulty variant: Put is the last statement of the method instead of being
\* deferred, so a panic leaves the buffer with the call
bufPool_Put_NotDeferred(pl, b, panicked) ==
    IF panicked THEN [pool |-> pl, held |-> b]
    ELSE [pool |-> pl \cup {b}, held |-> NoBuf]

\* defer bufPool.Put(buf): runs when the method returns and when it panics
bufPool_Put(pl, b, panicked) == [pool |-> pl \cup {b}, held |-> NoBuf]

\* Decompose(buf) writes the coefficient at the start of the buffer and
\* leaves the bytes behind it as they were
Decompose_Write(old, coef) == coef \o SubSeq(old, Len(coef) + 1, Len(old))

\* the digits of the slice of n digits of buffer b
SliceOf(m, b, n) == SubSeq(m[b], 1, IF n < Len(m[b]) THEN n ELSE Len(m[b]))

\* faulty variant: the big.Int is made on the bytes of the slice themselves
\* and goes on sharing them with the buffer
SetBytesOf_Aliased(m, b, n) == [nil |-> FALSE, neg |-> FALSE, abs |-> << >>, ref |-> b, len |-> n]

\* new(big.Int).SetBytes(value) of the slice: the big.Int has its own copy of
\* the digits (ref says which buffer a big.Int shares its digits with)
SetBytesOf(m, b, n) ==
    [nil |-> FALSE, neg |-> FALSE, abs |-> Strip(SliceOf(m, b, n)), ref |-> NoBuf, len |-> 0]

\* the magnitude that is read from a big.Int made by SetBytesOf
MagnitudeOf(z) == IF z.ref = NoBuf THEN z.abs ELSE Strip(SliceOf(mem, z.ref, z.len))

\* z.Neg(z), of a big.Int made by SetBytesOf
NegOf(z) == [z EXCEPT !.neg = ~z.neg]

\* the call begins with a copy of its receiver
NumericValueEnter(g) ==
    /\ pc[g] = "idle"
    /\ \E n \in PoolReceivers : rcv' = [rcv EXCEPT ![g] = n]
    /\ pc' = [pc EXCEPT ![g] = "entered"]
    /\ UNCHANGED <<kind, d, nd, call, held, pool, mem, val>>

\* decimal.go:159-166: the returns for a receiver that is not valid or NaN
NumericValueNull(g) ==
    /\ pc[g] = "entered"
    /\ ~rcv[g].Valid \/ IsNaN(rcv[g].Decimal)
    /\ call' = [ValueCall("NullDecimal.NumericValue", Returned(ZeroNumeric, NoError))
                    EXCEPT !.src = rcv[g]]
    /\ pc' = [pc EXCEPT ![g] = "idle"]
    /\ rcv' = [rcv EXCEPT ![g] = ZeroNullDecimal]
    /\ UNCHANGED <<kind, d, nd, held, pool, mem, val>>

\* decimal.go:167-168: buf := bufPool.Get(), and the Put is deferred
NumericValueGet(g) ==
    /\ pc[g] = "entered"
    /\ rcv[g].Valid /\ ~IsNaN(rcv[g].Decimal)
    /\ \E b \in bufPool_Get :
         /\ held' = [held EXCEPT ![g] = b]
         /\ pool' = pool \ {b}
         /\ mem' = IF b \in pool THEN mem ELSE [mem EXCEPT ![b] = NewBuf]
    /\ pc' = [pc EXCEPT ![g] = "got"]
    /\ UNCHANGED <<kind, d, nd, call, rcv, val>>

\* decimal.go:170: Decompose writes the coefficient into the buffer and
\* returns the slice of it as value, or panics (and the call does nothing
\* more with its receiver)
NumericValueDecompose(g) ==
    /\ pc[g] = "got"
    /\ \E panicked \in BOOLEAN :
         IF panicked
         THEN /\ pc' = [pc EXCEPT ![g] = "panicking"]
              /\ rcv' = [rcv EXCEPT ![g] = ZeroNullDecimal]
              /\ UNCHANGED <<mem, val>>
         ELSE LET coef == Decompose(rcv[g].Decimal).coef
              IN  /\ pc' = [pc EXCEPT ![g] = "returning"]
                  /\ mem' = [mem EXCEPT ![held[g]] = Decompose_Write(@, coef)]
                  /\ val' = [val EXCEPT ![g] = Len(coef)]
                  /\ UNCHANGED rcv
    /\ UNCHANGED <<kind, d, nd, call, held, pool>>

\* decimal.go:172-177: the numeric is made of the sign, the slice and the
\* exponent that Decompose returned
NumericValue_Result(g) ==
    LET p == Decompose(rcv[g].Decimal)
        z == SetBytesOf(mem, held[g], val[g])
    IN  Returned(Numeric(IF p.neg THEN NegOf(z) ELSE z, p.exp, TRUE, FALSE, PgFinite),
                 NoError)

\* the call ends, by return or by panic: the deferred Put runs
NumericValueReturn(g) ==
    /\ pc[g] \in {"returning", "panicking"}
    /\ LET r == bufPool_Put(pool, held[g], pc[g] = "panicking")
       IN  /\ pool' = r.pool
           /\ held' = [held EXCEPT ![g] = r.held]
    /\ call' = IF pc[g] = "panicking"
               THEN ValueCall("NullDecimal.NumericValue", Returned(None, PanicDecompose))
               ELSE [ValueCall("NullDecimal.NumericValue", NumericValue_Result(g))
                        EXCEPT !.src = rcv[g]]
    /\ pc' = [pc EXCEPT ![g] = "idle"]
    /\ rcv' = [rcv EXCEPT ![g] = ZeroNullDecimal]
    /\ val' = [val EXCEPT ![g] = 0]
    /\ UNCHANGED <<kind, d, nd, mem>>

\* sync.Pool lets go of a pooled buffer at a garbage collection; the buffer
\* is no more
bufPoolDrop ==
    /\ \E b \in pool :
         /\ pool' = pool \ {b}
         /\ mem' = [mem EXCEPT ![b] = NewBuf]
    /\ UNCHANGED <<kind, d, nd, call, pc, rcv, held, val>>

PoolInit ==
    /\ kind = "NullDecimal"
    /\ d = ZeroDecimal
    /\ nd = ZeroNullDecimal
    /\ call = [op |-> "new", arg |-> None, ret |-> None, err |-> NoError,
               rt |-> FALSE, src |-> None]
    /\ PoolIdle

PoolNext ==
    \/ \E g \in Goroutines :
         \/ NumericValueEnter(g)
         \/ NumericValueNull(g)
         \/ NumericValueGet(g)
         \/ NumericValueDecompose(g)
         \/ NumericValueReturn(g)
    \/ bufPoolDrop

PoolSpec == PoolInit /\ [][PoolNext]_vars

(***************************************************************************)
(* Properties.                                                             *)
(***************************************************************************)
NumericScans == {"Decimal.ScanNumeric", "NullDecimal.ScanNumeric"}

Float64Scans == {"Decimal.ScanFloat64", "NullDecimal.ScanFloat64"}

NullDecimalScans ==
    {"NullDecimal.ScanNumeric", "NullDecimal.ScanFloat64", "NullDecimal.ScanInt64"}

NullDecimalValues ==
    {"NullDecimal.NumericValue", "NullDecimal.Float64Value", "NullDecimal.Int64Value"}

\* the call scanned the wire value that the preceding Value call made of the
\* finite Decimal (or valid finite NullDecimal) call.src
RoundTripOf(op) ==
    /\ call.op = op
    /\ call.rt
    /\ IF kind = "Decimal" THEN IsFinite(call.src)
       ELSE call.src.Valid /\ IsFinite(call.src.Decimal)

\* C1: NumericValue of a finite Decimal followed by ScanNumeric of the wire
\* numeric it returned succeeds and leaves a Decimal numerically equal to the
\* one encoded; a valid NullDecimal comes back valid and equal.
C1_NumericRoundTrip ==
    /\ RoundTripOf("Decimal.ScanNumeric") => (call.err = NoError /\ Equal(d, call.src))
    /\ RoundTripOf("NullDecimal.ScanNumeric") =>
          (call.err = NoError /\ nd.Valid /\ Equal(nd.Decimal, call.src.Decimal))

C1_Witness ==
    /\ RoundTripOf("NullDecimal.ScanNumeric")
    /\ call.src.Decimal = Finite(TRUE, Nines34, minUnbiasedExponent)
    /\ call.err = NoError

\* what a finite Decimal comes back as: itself, except that a zero comes back
\* without its sign
WithoutSignOfZero(v) == IF IsZero(v) THEN Finite(FALSE, << >>, v.exp) ELSE v

\* C2 as stated: the decoded Decimal has the sign, coefficient and exponent of
\* the encoded one, zero of either sign included.
C2_RoundTripIdentical ==
    /\ RoundTripOf("Decimal.ScanNumeric") => (call.err = NoError /\ d = call.src)
    /\ RoundTripOf("NullDecimal.ScanNumeric") => (call.err = NoError /\ nd = call.src)

\* C2 amended: the decoded Decimal has the sign, coefficient and exponent of
\* the encoded one, except that negative zero comes back as positive zero
\* (with the exponent it had).
C2_RoundTripRepresentation ==
    /\ RoundTripOf("Decimal.ScanNumeric") =>
          (call.err = NoError /\ d = WithoutSignOfZero(call.src))
    /\ RoundTripOf("NullDecimal.ScanNumeric") =>
          (call.err = NoError
             /\ nd = NullDecimal(WithoutSignOfZero(call.src.Decimal), TRUE))

C2_Witness ==
    /\ RoundTripOf("Decimal.ScanNumeric")
    /\ call.src = Finite(TRUE, <<1,0>>, 0 - 1)
    /\ d = call.src

\* C3: Decimal.ScanNumeric of a numeric whose validity flag is false fails
\* with the NULL error, whatever its NaN flag, infinity modifier, magnitude
\* (absent or not) and exponent are.
C3_NullCheckedFirst ==
    (call.op = "Decimal.ScanNumeric" /\ ~call.arg.Valid) => call.err = ErrScanNull

C3_Witness ==
    /\ call.op = "Decimal.ScanNumeric"
    /\ ~call.arg.Valid
    /\ call.arg.NaN
    /\ call.arg.InfinityModifier = PgInfinity
    /\ call.arg.Int.nil
    /\ call.err = ErrScanNull

\* C4: ScanNumeric of a valid numeric with the NaN flag, and ScanFloat64 of a
\* valid NaN float, fail with the NaN error and do not panic, for Decimal and
\* NullDecimal, also when the numeric has no magnitude.
C4_NaNRejected ==
    /\ (call.op \in NumericScans /\ call.arg.Valid /\ call.arg.NaN) =>
          call.err = ErrScanNaN
    /\ (call.op \in Float64Scans /\ call.arg.Valid /\ call.arg.Float64.class = "nan") =>
          call.err = ErrScanNaN

C4_Witness ==
    /\ call.op = "NullDecimal.ScanNumeric"
    /\ call.arg.Valid
    /\ call.arg.NaN
    /\ call.arg.Int.nil
    /\ call.arg.InfinityModifier = PgNegativeInfinity
    /\ call.err = ErrScanNaN

\* the errors made from ErrScanInf
IsErrScanInf(e) ==
    \E s \in {"infinity", "-infinity", "+Inf", "-Inf"} : e = ErrScanInf(s)

\* the error of the same call with the infinity of the other sign
ErrOfOtherInfinity ==
    CASE call.op = "Decimal.ScanNumeric" ->
            Decimal_ScanNumeric(d, [call.arg EXCEPT !.InfinityModifier = 0 - @]).err
      [] call.op = "NullDecimal.ScanNumeric" ->
            NullDecimal_ScanNumeric(nd, [call.arg EXCEPT !.InfinityModifier = 0 - @]).err
      [] call.op = "Decimal.ScanFloat64" ->
            Decimal_ScanFloat64(d, Float8(FloatInf(~call.arg.Float64.neg), TRUE)).err
      [] call.op = "NullDecimal.ScanFloat64" ->
            NullDecimal_ScanFloat64(nd, Float8(FloatInf(~call.arg.Float64.neg), TRUE)).err

\* C5: ScanNumeric of a valid numeric, not NaN, with modifier +infinity or
\* -infinity, and ScanFloat64 of a valid +Inf or -Inf, fail with the error of
\* a value that is not finite, and the error for one sign is not the error
\* for the other.
C5_InfinityRejected ==
    /\ (/\ call.op \in NumericScans
        /\ call.arg.Valid
        /\ ~call.arg.NaN
        /\ call.arg.InfinityModifier \in {PgInfinity, PgNegativeInfinity}) =>
          (IsErrScanInf(call.err) /\ call.err # ErrOfOtherInfinity)
    /\ (call.op \in Float64Scans /\ call.arg.Valid /\ call.arg.Float64.class = "inf") =>
          (IsErrScanInf(call.err) /\ call.err # ErrOfOtherInfinity)

C5_Witness ==
    /\ call.op = "Decimal.ScanFloat64"
    /\ call.arg.Valid
    /\ call.arg.Float64 = FloatInf(TRUE)
    /\ IsErrScanInf(call.err)

\* C6: the three Scan methods of NullDecimal, given a wire value that is not
\* valid, return no error and leave Valid = false; its three Value methods, on
\* a NullDecimal that is not valid, return no error and a wire value that is
\* not valid, whatever Decimal it holds.
C6_NullInNullOut ==
    /\ (call.op \in NullDecimalScans /\ ~call.arg.Valid) =>
          (call.err = NoError /\ ~nd.Valid)
    /\ (call.op \in NullDecimalValues /\ ~nd.Valid) =>
          (call.err = NoError /\ ~call.ret.Valid)

C6_Witness ==
    /\ call.op = "NullDecimal.Int64Value"
    /\ nd = NullDecimal(Inf(TRUE), FALSE)
    /\ call.err = NoError
    /\ ~call.ret.Valid

\* C7: Decimal.ScanInt64 of an Int8 that is not valid returns no error and
\* sets the Decimal to its zero value; Decimal.ScanNumeric and
\* Decimal.ScanFloat64 of a wire value that is not valid fail with the NULL
\* error.
C7_NullAsymmetry ==
    /\ (call.op = "Decimal.ScanInt64" /\ ~call.arg.Valid) =>
          (call.err = NoError /\ d = ZeroDecimal)
    /\ (call.op \in {"Decimal.ScanNumeric", "Decimal.ScanFloat64"} /\ ~call.arg.Valid) =>
          call.err = ErrScanNull

C7_Witness ==
    /\ call.op = "Decimal.ScanInt64"
    /\ call.arg = Int8(SInt(TRUE, MinInt64Abs), FALSE)
    /\ call.err = NoError
    /\ d = ZeroDecimal

\* Int64Value, which returned r, of the Decimal v at the edges of int64
Int64EdgesOf(v, r) ==
    /\ Equal(v, Finite(FALSE, MaxInt64, 0)) =>
          (r.err = NoError /\ r.ret = Int8(SInt(FALSE, MaxInt64), TRUE))
    /\ Equal(v, Finite(TRUE, MinInt64Abs, 0)) =>
          (r.err = NoError /\ r.ret = Int8(SInt(TRUE, MinInt64Abs), TRUE))
    /\ Equal(v, Finite(FALSE, MinInt64Abs, 0)) => r.err = ErrRange

\* C8: Int64Value of 9223372036854775807 and of -9223372036854775808 succeeds
\* with exactly that integer and validity true, Int64Value of
\* 9223372036854775808 fails with the range error; for Decimal and for a valid
\* NullDecimal.
C8_Int64Edges ==
    /\ call.op = "Decimal.Int64Value" => Int64EdgesOf(d, call)
    /\ (call.op = "NullDecimal.Int64Value" /\ nd.Valid) => Int64EdgesOf(nd.Decimal, call)

C8_Witness ==
    /\ call.op = "NullDecimal.Int64Value"
    /\ nd = NullDecimal(Finite(FALSE, MinInt64Abs, 0), TRUE)
    /\ call.err = ErrRange

\* v is decimal128.FromInt64(n) for an int64 n
IsFromInt64(v) ==
    /\ IsFinite(v)
    /\ IsInt64(SInt(v.neg, v.sig))
    /\ v = FromInt64(SInt(v.neg, v.sig))

\* C9: the Decimal made from an int64 n encodes with Int64Value to Int8{n,
\* valid} with no error, and ScanInt64 of that Int8 gives a Decimal equal to
\* it; a valid NullDecimal comes back valid.
C9_Int8RoundTrip ==
    /\ (call.op = "Decimal.Int64Value" /\ IsFromInt64(d)) =>
          (call.err = NoError /\ call.ret = Int8(SInt(d.neg, d.sig), TRUE))
    /\ (RoundTripOf("Decimal.ScanInt64") /\ IsFromInt64(call.src)) =>
          (call.err = NoError /\ Equal(d, call.src))
    /\ (call.op = "NullDecimal.Int64Value" /\ nd.Valid /\ IsFromInt64(nd.Decimal)) =>
          (call.err = NoError
             /\ call.ret = Int8(SInt(nd.Decimal.neg, nd.Decimal.sig), TRUE))
    /\ (RoundTripOf("NullDecimal.ScanInt64") /\ IsFromInt64(call.src.Decimal)) =>
          (call.err = NoError /\ nd.Valid /\ Equal(nd.Decimal, call.src.Decimal))

C9_Witness ==
    /\ RoundTripOf("Decimal.ScanInt64")
    /\ call.src = Finite(TRUE, MinInt64Abs, 0)
    /\ call.arg = Int8(SInt(TRUE, MinInt64Abs), TRUE)
    /\ d = call.src

\* the finite Decimal v has a fractional part or lies outside int64
NotAnInt64(v) ==
    /\ IsFinite(v)
    /\ HasFraction(v) \/ ~IsInt64(SInt(v.neg, TruncInt(v)))

\* C10: Int64Value fails with the range error for every finite Decimal with a
\* non-zero fractional part and for every one outside the int64 range, for
\* Decimal and for a valid NullDecimal.
C10_FractionRefused ==
    /\ (call.op = "Decimal.Int64Value" /\ NotAnInt64(d)) => call.err = ErrRange
    /\ (call.op = "NullDecimal.Int64Value" /\ nd.Valid /\ NotAnInt64(nd.Decimal)) =>
          call.err = ErrRange

\* C11: Decimal.Int64Value of a NaN Decimal fails with the range error; it
\* does not return an Int8 that is not valid together with no error.
C11_NaNRangeError ==
    (call.op = "Decimal.Int64Value" /\ IsNaN(d)) =>
        (call.err = ErrRange /\ ~(call.err = NoError /\ ~call.ret.Valid))

\* C12: NullDecimal.Int64Value of a NullDecimal with Valid = true that holds
\* NaN returns no error and an Int8 that is not valid.
C12_NaNIsNull ==
    (call.op = "NullDecimal.Int64Value" /\ nd.Valid /\ IsNaN(nd.Decimal)) =>
        (call.err = NoError /\ ~call.ret.Valid)

C12_Witness ==
    /\ call.op = "NullDecimal.Int64Value"
    /\ nd = NullDecimal(NaN(TRUE), TRUE)
    /\ call.err = NoError
    /\ call.ret = ZeroInt8

\* the Decimal a ScanNumeric call left
Scanned_d == IF kind = "Decimal" THEN d ELSE nd.Decimal

\* ScanNumeric of the numeric of the test, of the given sign, left a Decimal
\* whose text is txt
RendersAs(neg, txt) ==
    (call.op \in NumericScans /\ call.arg = TestNumeric(neg)) =>
        (call.err = NoError /\ String(Scanned_d) = txt)

ScannedFiniteNumeric ==
    /\ call.op \in NumericScans
    /\ call.arg.Valid
    /\ ~call.arg.NaN
    /\ call.arg.InfinityModifier = PgFinite
    /\ ~call.arg.Int.nil

\* the number magnitude x 10^exponent of a numeric, as a Decimal would hold it
\* had it room for every digit
ValueOf(v) == Finite(v.Int.neg, v.Int.abs, v.Exp)

\* C14: ScanNumeric of a valid finite numeric whose magnitude is beyond the
\* coefficient of a Decimal (2^113 or more, which has more than 34 decimal
\* digits) fails with a panic, and never returns success with a Decimal whose
\* value is not magnitude x 10^exponent.
C14_OversizeFailsFast ==
    (/\ ScannedFiniteNumeric
     /\ Cmp(call.arg.Int.abs, Pow2_113) >= 0
     /\ Len(call.arg.Int.abs) > maxDigits) =>
        /\ IsPanic(call.err)
        /\ ~(call.err = NoError /\ ~Equal(Scanned_d, ValueOf(call.arg)))

\* the parts are those of a Decimal: Compose takes them
Representable(c, e) == ~ComposeFails(0, c, e)

\* the numeric scanned is (c x 10^k, e - k), for every k up to the number of
\* its trailing zeros for which (c, e) are the parts of a Decimal: the scan
\* succeeded and left a Decimal equal to the one that (c, e) gives
EqualToShorterForms ==
    \A k \in 0..TrailingZeros(call.arg.Int.abs) :
        LET c == ShiftRight(call.arg.Int.abs, k)
            e == call.arg.Exp + k
            short == Numeric(BigIntOf(call.arg.Int.neg, c), e, TRUE, FALSE, PgFinite)
        IN  Representable(c, e) =>
                /\ call.err = NoError
                /\ Equal(d, Decimal_ScanNumeric(d, short).d)

\* C15 as stated: for every sign, coefficient c, exponent e and k >= 0,
\* Decimal.ScanNumeric of the numeric (c x 10^k, e - k) succeeds and leaves a
\* Decimal equal to the one obtained from (c, e).
C15_AnyRepresentationAccepted ==
    (ScannedFiniteNumeric /\ call.op = "Decimal.ScanNumeric") => EqualToShorterForms

\* C15 amended: the same, for the k for which c x 10^k is still below 2^113
\* and e - k is not below the smallest exponent.
C15_RepresentableAccepted ==
    (/\ ScannedFiniteNumeric
     /\ call.op = "Decimal.ScanNumeric"
     /\ Representable(call.arg.Int.abs, call.arg.Exp)) => EqualToShorterForms

C15_Witness ==
    /\ call.op = "Decimal.ScanNumeric"
    /\ call.arg = Numeric(BigIntOf(TRUE, <<1,5,0,0>>), 0 - 3, TRUE, FALSE, PgFinite)
    /\ call.err = NoError
    /\ d = Finite(TRUE, <<1,5,0,0>>, 0 - 3)
    /\ Equal(d, Finite(TRUE, <<1,5>>, 0 - 1))

\* C16: Decimal.NumericValue sends the form that Decompose gives as the
\* infinity modifier: 0 as finite, 1 as +infinity (with or without the sign),
\* 2 with the sign as -infinity, and 2 without the sign, or any other form, as
\* finite.
C16_ModifierMapping ==
    call.op = "Decimal.NumericValue" =>
        LET p == Decompose(d)
            inf == call.ret.InfinityModifier
        IN  /\ p.form = 0 => inf = PgFinite
            /\ p.form = 1 => inf = PgInfinity
            /\ (p.form = 2 /\ p.neg) => inf = PgNegativeInfinity
            /\ (p.form = 2 /\ ~p.neg) => inf = PgFinite
            /\ p.form \notin {0, 1, 2} => inf = PgFinite

C16_Witness ==
    /\ call.op = "Decimal.NumericValue"
    /\ d = Inf(TRUE)
    /\ call.ret.InfinityModifier = PgInfinity

\* the sign of the integer that is the coefficient, negated when the sign is set
SignedCoef(p) == IF p.coef = << >> THEN 0 ELSE IF p.neg THEN 0 - 1 ELSE 1

\* C17: Decimal.NumericValue of every Decimal, finite, infinite or NaN,
\* returns no error and a numeric with validity true and NaN flag false, whose
\* magnitude is the coefficient, negative exactly when the sign is set, and
\* whose exponent is the exponent of the Decimal.
C17_NumericValueTotal ==
    call.op = "Decimal.NumericValue" =>
        LET p == Decompose(d)
        IN  /\ call.err = NoError
            /\ call.ret.Valid
            /\ ~call.ret.NaN
            /\ ~call.ret.Int.nil
            /\ call.ret.Int.abs = p.coef
            /\ Sign(call.ret.Int) = SignedCoef(p)
            /\ call.ret.Exp = p.exp

C17_Witness ==
    /\ call.op = "Decimal.NumericValue"
    /\ d = NaN(FALSE)
    /\ call.err = NoError
    /\ call.ret = Numeric(BigIntOf(FALSE, << >>), 0, TRUE, FALSE, PgFinite)

\* C18: NullDecimal.ScanNumeric of a numeric with validity true has the
\* outcome of Decimal.ScanNumeric of the same numeric: the same failure (NaN,
\* not finite, or the panic for a magnitude out of range) or, on success,
\* Valid = true and a Decimal equal to the one Decimal.ScanNumeric leaves.
C18_WrapperPassesThrough ==
    (call.op = "NullDecimal.ScanNumeric" /\ call.arg.Valid) =>
        LET r == Decimal_ScanNumeric(ZeroDecimal, call.arg)
        IN  /\ call.err = r.err
            /\ r.err = NoError => (nd.Valid /\ Equal(nd.Decimal, r.d))

\* the errors a Scan method returns: NULL, NaN, not finite
IsScanError(e) == e \in {ErrScanNull, ErrScanNaN} \/ IsErrScanInf(e)

\* C19: a call of ScanNumeric or ScanFloat64, on a Decimal or a NullDecimal,
\* that returns an error leaves the destination exactly as it was before the
\* call; and a call of NumericCodec.DecodeValue that returns an error returns
\* nil as its value.
C19_NoPartialPopulation ==
    [][/\ (call'.op \in NumericScans \cup Float64Scans /\ IsScanError(call'.err)) =>
            (d' = d /\ nd' = nd)
       /\ (/\ call'.op = "NumericCodec.DecodeValue"
           /\ call'.err # NoError
           /\ ~IsPanic(call'.err)) => call'.ret = NilAny]_vars

C19_Witness ==
    /\ call.op = "NullDecimal.ScanFloat64"
    /\ call.err = ErrScanNaN
    /\ nd = NullDecimal(Finite(TRUE, Nines34, maxUnbiasedExponent), TRUE)

\* C20: in NullDecimal.NumericValue a buffer taken from bufPool is put back
\* when the call ends, by return or by panic, and the returns for a receiver
\* that is not valid or NaN take none: a call that has not begun, has ended or
\* has not passed those returns holds no buffer, so that no buffer is checked
\* out when no call is running; no two calls hold the same buffer, and a
\* buffer that is held is not in the pool.
C20_BuffersReleased ==
    /\ \A g \in Goroutines : pc[g] \in {"idle", "entered"} => held[g] = NoBuf
    /\ \A g \in Goroutines : pc[g] \notin {"idle", "entered"} => held[g] \in Buffers
    /\ \A g, h \in Goroutines : (g # h /\ held[g] # NoBuf) => held[g] # held[h]
    /\ \A g \in Goroutines : held[g] \notin pool

\* a call has ended by panic and holds nothing, while another call holds a
\* buffer and a buffer is back in the pool
C20_Witness ==
    /\ call.err = PanicDecompose
    /\ pc[1] = "idle"
    /\ held[1] = NoBuf
    /\ \E h \in Goroutines : held[h] # NoBuf
    /\ pool # {}

\* the numeric that the last call of NullDecimal.NumericValue returned, as it
\* reads now: the magnitude of a big.Int that shares its digits with a buffer
\* is what the buffer holds now
ReadsNow(ret) ==
    IF ~ret.Valid THEN ret
    ELSE Numeric(BigIntOf(ret.Int.neg, MagnitudeOf(ret.Int)), ret.Exp, ret.Valid, ret.NaN,
                 ret.InfinityModifier)

\* the numeric of a NullDecimal: not valid for one that is not valid or NaN,
\* else finite with the coefficient, negative when the sign is set, and the
\* exponent
NumericOf(n) ==
    IF ~n.Valid \/ IsNaN(n.Decimal) THEN ZeroNumeric
    ELSE LET p == Decompose(n.Decimal)
         IN  Numeric(BigIntOf(p.neg, p.coef), p.exp, TRUE, FALSE, PgFinite)

\* C21: the numeric NullDecimal.NumericValue returned is that of the
\* NullDecimal encoded, whatever bytes earlier calls left in the buffer it
\* used, and it stays so while later and concurrent calls take the buffer and
\* write other values to it.
C21_NoLeakThroughBuffer ==
    (call.op = "NullDecimal.NumericValue" /\ call.err = NoError) =>
        ReadsNow(call.ret) = NumericOf(call.src)

\* the last call returned 7, and a call that runs now has written 15 into the
\* buffer it holds
C21_Witness ==
    /\ call.op = "NullDecimal.NumericValue"
    /\ call.src = NullDecimal(Finite(FALSE, <<7>>, 0), TRUE)
    /\ ReadsNow(call.ret).Int = BigIntOf(FALSE, <<7>>)
    /\ \E g \in Goroutines :
         /\ pc[g] = "returning"
         /\ mem[held[g]] = <<1,5>>
         /\ rcv[g].Decimal = Finite(TRUE, <<1,5>>, 0 - 1)

\* the errors with which NumericCodec.DecodeValue returns: no scan plan, bytes
\* that are not a numeric, and the errors of ScanNumeric
IsDecodeError(e) == e \in {ErrNoPlan, ErrDecode} \/ IsScanError(e)

\* C22: when NumericCodec.DecodeValue returns, then for a nil src it has
\* returned nil and no error, also when the type map has no scan plan; for
\* bytes it has returned either a finite Decimal and no error, or nil and the
\* error of the missing plan or of the scan; never a value along with an error.
C22_DecodeValueOutcomes ==
    (call.op = "NumericCodec.DecodeValue" /\ ~IsPanic(call.err)) =>
        /\ call.arg.nil => (call.ret = NilAny /\ call.err = NoError)
        /\ ~call.arg.nil =>
              \/ (call.err = NoError /\ call.ret # NilAny /\ IsFinite(call.ret))
              \/ (call.ret = NilAny /\ IsDecodeError(call.err))
        /\ ~(call.ret # NilAny /\ call.err # NoError)

\* the bytes of a NaN numeric were scanned, the scan failed, and nil came back
\* with the error of the scan
C22_Witness ==
    /\ call.op = "NumericCodec.DecodeValue"
    /\ call.arg = Src(Numeric(NilInt, 0, TRUE, TRUE, PgFinite))
    /\ call.ret = NilAny
    /\ call.err = ErrScanNaN

Float64Values == {"Decimal.Float64Value", "NullDecimal.Float64Value"}

\* the bit pattern of a float64: every zero of one sign is the same float
FloatBits(f) == IF f.digits = << >> THEN [f EXCEPT !.exp = 0] ELSE f

CodecType(t) ==
    CASE t = "decimal128.Decimal" -> "Decimal"
      [] t = "*decimal128.Decimal" -> "*Decimal"
      [] OTHER -> t

\* what a hook returned for a value of the types it wraps, and for any other
HookResult(types) ==
    IF call.arg.type \in types
    THEN /\ call.ret.ok
         /\ call.ret.plan # NilPlan
         /\ call.ret.nextValue = AnyOf(CodecType(call.arg.type), call.arg.val)
    ELSE call.ret = Wrapped(NilPlan, NilAny, FALSE)

\* C24: TryWrapNumericEncodePlan returns ok and a plan exactly for a
\* decimal128.Decimal or a NullDecimal, TryWrapNumericScanPlan exactly for a
\* *decimal128.Decimal or a *NullDecimal, and both nil, nil, false for all
\* else; the value or pointer handed on has the codec type and the same
\* content and place; Encode and Scan of the wrapped plan return what the
\* next plan returns for that value or pointer.
C24_HooksWrapAndForward ==
    /\ call.op = "TryWrapNumericEncodePlan" => HookResult({"decimal128.Decimal", "NullDecimal"})
    /\ call.op = "TryWrapNumericScanPlan" => HookResult({"*decimal128.Decimal", "*NullDecimal"})
    /\ call.op = "WrappedEncodePlan.Encode" =>
          Encoded(call.ret, call.err) =
              EncodePlan_Encode(call.arg.next,
                                AnyOf(CodecType(call.arg.value.type), call.arg.value.val), << >>)
    /\ call.op = "WrappedScanPlan.Scan" =>
          Scanned(call.ret, call.err) =
              ScanPlan_Scan(call.arg.next, call.arg.src,
                            AnyOf(CodecType(call.arg.dst.type), call.arg.dst.val))

\* the plan wrapped around a decimal128.Decimal has encoded -1.5 through the
\* numeric plan
C24_Witness ==
    /\ call.op = "WrappedEncodePlan.Encode"
    /\ call.arg.value = AnyOf("decimal128.Decimal", Finite(TRUE, <<1,5>>, 0 - 1))
    /\ call.arg.next = "numeric"
    /\ call.err = NoError
    /\ call.ret = <<Numeric(BigIntOf(TRUE, <<1,5>>), 0 - 1, TRUE, FALSE, PgFinite)>>

\* the infinity class of a Decimal as a modifier
InfinityClass(dd) ==
    IF ~IsInf(dd) THEN PgFinite
    ELSE IF dd.neg THEN PgNegativeInfinity ELSE PgInfinity

\* C25: the infinity modifier of the numeric Decimal.NumericValue returns is
\* the infinity class of the Decimal: infinity for +Infinity, negative
\* infinity for -Infinity, finite for every other Decimal, NaN included.
C25_ModifierReflectsClass ==
    call.op = "Decimal.NumericValue" => call.ret.InfinityModifier = InfinityClass(d)

\* C26: for a valid NullDecimal that is not NaN, finite or infinite,
\* NullDecimal.NumericValue returns the numeric and the error that
\* Decimal.NumericValue returns for the Decimal it holds: the same validity,
\* NaN flag, infinity modifier, magnitude and exponent.
C26_NumericValuesAgree ==
    (call.op = "NullDecimal.NumericValue" /\ nd.Valid /\ ~IsNaN(nd.Decimal)) =>
        LET r == Decimal_NumericValue(nd.Decimal)
        IN  call.ret = r.ret /\ call.err = r.err

\* C27: for a valid NullDecimal, whatever Decimal it holds,
\* NullDecimal.Int64Value ends as Decimal.Int64Value of that Decimal ends:
\* neither panics, both return an error or both return none, and without
\* error they return the same Int8.
C27_Int64ValuesAgree ==
    (call.op = "NullDecimal.Int64Value" /\ nd.Valid) =>
        LET r == Decimal_Int64Value(nd.Decimal)
        IN  /\ ~IsPanic(call.err)
            /\ ~IsPanic(r.err)
            /\ (call.err = NoError) <=> (r.err = NoError)
            /\ call.err = NoError => call.ret = r.ret

\* C28: when only ScanNumeric, ScanFloat64 and ScanInt64 are called, with any
\* wire values and whether they succeed or fail, a NullDecimal that began as
\* the zero value holds a finite Decimal whenever it is valid, and a Decimal
\* that began finite is finite.
C28_DecodedFinite ==
    /\ (kind = "NullDecimal" /\ nd.Valid) => IsFinite(nd.Decimal)
    /\ kind = "Decimal" => IsFinite(d)

\* an infinite float was refused after a float had been scanned, and the
\* NullDecimal still holds that float's value
C28_Witness ==
    /\ call.op = "NullDecimal.ScanFloat64"
    /\ call.arg = Float8(FloatInf(TRUE), TRUE)
    /\ call.err # NoError
    /\ nd = NullDecimal(Finite(FALSE, <<1,2,3,4,5,6>>, 0 - 3), TRUE)

\* C29: a call of ScanNumeric, ScanFloat64 or ScanInt64 on a NullDecimal with
\* a wire value that is not valid leaves the zero NullDecimal, whatever the
\* NullDecimal was before, and NumericValue, Float64Value or Int64Value
\* called next returns a wire value that is not valid, with no error; a call
\* of Decimal.ScanInt64 with an Int8 that is not valid leaves the zero
\* Decimal, whatever the Decimal was before.
C29_NoStaleValue ==
    [][/\ (call'.op \in NullDecimalScans /\ ~call'.arg.Valid) => nd' = ZeroNullDecimal
       /\ (/\ call.op \in NullDecimalScans
           /\ ~call.arg.Valid
           /\ call'.op \in NullDecimalValues) =>
             (call'.err = NoError /\ ~call'.ret.Valid)
       /\ (call'.op = "Decimal.ScanInt64" /\ ~call'.arg.Valid) => d' = ZeroDecimal]_vars

\* ScanFloat64 of a Float8 that is not valid has left the zero NullDecimal
C29_Witness ==
    /\ call.op = "NullDecimal.ScanFloat64"
    /\ call.arg = Float8(FloatInf(TRUE), FALSE)
    /\ call.err = NoError
    /\ nd = ZeroNullDecimal

====
